---- MODULE Spec2Model ----
(***************************************************************************)
(* A model of orbtk's minifb window shell (crates/shell/src/minifb/mod.rs): *)
(* the frame loop Shell::run, the per-frame event drain                    *)
(* Shell::drain_events, the key tracker helpers, the text-input            *)
(* conversion unicode_to_key_event and the multi-window registry AShell.   *)
(*                                                                         *)
(* The platform (minifb::Window) is the environment: its state is the      *)
(* record `window`, which changes only when the frame loop pumps it (flip  *)
(* or window.update()).  Option values are sequences of length 0 or 1.     *)
(***************************************************************************)
EXTENDS Integers, Sequences, FiniteSets, TLC

\* ------------------------------------------------------------------ bounds
MaxFrames == 4      \* iterations of Shell::run that pump the platform
MaxKeyFrames == 6   \* the same, in the runs that follow held keys
MaxBusyFrames == 2  \* the same, in the runs that mix every kind of input
MaxCoord == 5       \* mouse coordinates range over 0..MaxCoord sub-pixel units
Scale == 2          \* sub-pixel units per pixel (floor truncates to a pixel)
MaxSends == 3       \* Update requests in flight on the request channel
MaxChars == 2       \* code points the platform delivers in one pump
MaxWindows == 2     \* windows built into an AShell registry

\* ----------------------------------------------------------------- helpers
None == <<>>
Some(v) == <<v>>
IsSome(o) == Len(o) = 1
Unwrap(o) == o[1]

Reverse(s) == [i \in 1..Len(s) |-> s[Len(s) + 1 - i]]

\* the concatenation of the first n sequences of ss
RECURSIVE FlattenUpTo(_, _)
FlattenUpTo(ss, n) == IF n = 0 THEN <<>> ELSE FlattenUpTo(ss, n - 1) \o ss[n]
Flatten(ss) == FlattenUpTo(ss, Len(ss))

RECURSIVE SumOver(_, _)
SumOver(f, S) ==
    IF S = {} THEN 0
    ELSE LET x == CHOOSE y \in S : TRUE IN f[x] + SumOver(f, S \ {x})

\* f32::floor of a coordinate held in sub-pixel units
Floor(v) == (v \div Scale) * Scale
FloorPos(p) == <<Floor(p[1]), Floor(p[2])>>

\* --------------------------------------------------------------- key tables
\* KeyHelper(bool, minifb::Key, Key): the native key polled and the logical
\* key reported, one per Shell field, as constructed by Shell::new.
KeyHelper(native, key) == [native |-> native, key |-> key]
key_backspace     == KeyHelper("Backspace", "Backspace")
key_left          == KeyHelper("Left", "Left")
key_right         == KeyHelper("Right", "Right")
key_up            == KeyHelper("Up", "Up")
key_down          == KeyHelper("Down", "Down")
key_delete        == KeyHelper("Delete", "Delete")
key_enter         == KeyHelper("Enter", "Enter")
key_control       == KeyHelper("LeftCtrl", "Control")
key_control_right == KeyHelper("RightCtrl", "Control")
key_shift_l       == KeyHelper("LeftShift", "ShiftL")
key_shift_r       == KeyHelper("RightShift", "ShiftR")
key_alt           == KeyHelper("LeftAlt", "Alt")
key_alt_r         == KeyHelper("RightAlt", "Alt")
key_escape        == KeyHelper("Escape", "Escape")
key_home          == KeyHelper("Home", "Home")
key_a             == KeyHelper("A", "A(false)")
key_c             == KeyHelper("C", "C(false)")
key_v             == KeyHelper("V", "V(false)")
key_x             == KeyHelper("X", "X(false)")

\* the first block of drain_events polls these, all downs and then all ups
PollGroup1 ==
    << key_backspace, key_delete, key_left, key_right, key_up, key_down,
       key_enter, key_control, key_control_right, key_shift_l, key_shift_r,
       key_alt, key_alt_r, key_escape, key_home >>
\* the second block: the shortcut letters, all downs and then all ups
PollGroup2 == << key_a, key_c, key_v, key_x >>

\* the order in which Shell::new constructs the bindings
ConstructionOrder ==
    << key_backspace, key_left, key_right, key_up, key_down, key_delete,
       key_enter, key_control, key_control_right, key_shift_l, key_shift_r,
       key_alt, key_alt_r, key_escape, key_home, key_a, key_c, key_v, key_x >>

Bindings == {PollGroup1[i] : i \in DOMAIN PollGroup1}
               \cup {PollGroup2[i] : i \in DOMAIN PollGroup2}
NativeKeys == {b.native : b \in Bindings}
LogicalKeys == {b.key : b \in Bindings}
NativesOf(lk) == {b.native : b \in {c \in Bindings : c.key = lk}}

\* the key_repeat match of key_event_helper_down
KeyRepeatDropDelete(native) ==
    IF native \in {"Left", "Right", "Up", "Down", "Backspace"}
    THEN "Yes" ELSE "No"
KeyRepeatAll(native) == "Yes"
KeyRepeat(native) ==
    IF native \in {"Left", "Right", "Up", "Down", "Backspace", "Delete"}
    THEN "Yes" ELSE "No"

\* ------------------------------------------------------ platform (minifb)
\* window.is_key_pressed(key, repeat): true in the poll that observes the
\* press; with KeyRepeat::Yes also whenever the platform's repeat fires for a
\* held key.
is_key_pressed(w, native, repeat) ==
    /\ native \in w.keys
    /\ \/ native \notin w.keys_prev
       \/ (repeat = "Yes" /\ native \in w.repeat)
\* window.is_key_released(key): true once, in the poll that observes the release
is_key_released(w, native) == native \notin w.keys /\ native \in w.keys_prev

\* ------------------------------------------------------------- text input
\* char::from_u32: every code point except surrogates and values past 0x10FFFF
from_u32(code) ==
    IF (0 <= code /\ code <= 55295) \/ (57344 <= code /\ code <= 1114111)
    THEN Some(code) ELSE None

\* Key::from(char), for the characters the model types
KeyFrom(ch) ==
    CASE ch = 8   -> "Backspace"
      [] ch = 10  -> "Enter"
      [] ch = 27  -> "Escape"
      [] ch = 127 -> "Delete"
      [] ch = 65  -> "A(true)"
      [] ch = 97  -> "A(false)"
      [] OTHER    -> "Unknown"

KeyEvent(key, state, text) == [key |-> key, state |-> state, text |-> text]

\* unicode_to_key_event: Option<KeyEvent>
unicode_to_key_event_keep_backspace(uni_char) ==
    LET character == from_u32(uni_char)
        text == IF IsSome(character) THEN <<Unwrap(character)>> ELSE <<>>
        key == IF IsSome(character) THEN KeyFrom(Unwrap(character)) ELSE "Unknown"
    IN  IF key \in {"Up", "Down", "Left", "Right", "Control", "Home",
                    "Escape", "Delete", "Unknown"}
        THEN None
        ELSE Some(KeyEvent(key, "Down", text))
unicode_to_key_event(uni_char) ==
    LET character == from_u32(uni_char)
        text == IF IsSome(character) THEN <<Unwrap(character)>> ELSE <<>>
        key == IF IsSome(character) THEN KeyFrom(Unwrap(character)) ELSE "Unknown"
    IN  IF \/ key = "Up" \/ key = "Down" \/ key = "Left" \/ key = "Right"
           \/ key = "Backspace" \/ key = "Control" \/ key = "Home"
           \/ key = "Escape" \/ key = "Delete" \/ key = "Unknown"
        THEN None
        ELSE Some(KeyEvent(key, "Down", text))

\* KeyInputCallBack::add_char: push the event, if any, onto the shared queue
add_char(queue, uni_char) ==
    LET key_event == unicode_to_key_event(uni_char)
    IN  IF IsSome(key_event) THEN Append(queue, Unwrap(key_event)) ELSE queue

RECURSIVE add_chars(_, _)
add_chars(queue, codes) ==
    IF codes = <<>> THEN queue
    ELSE add_chars(add_char(queue, Head(codes)), Tail(codes))

\* ------------------------------------------------------------------ state
VARIABLES
    pc,             \* Shell: "new" (constructed), then the position in Shell::run
    running,        \* Shell.running
    update,         \* Shell.update, the pending-update flag
    active,         \* Shell.active, last-known activation flag
    mouse_pos,      \* Shell.mouse_pos, last-known floored position
    button_down,    \* Shell.button_down, last-known levels <<left, middle, right>>
    window_size,    \* Shell.window_size, last-known size
    key_events,     \* the queue shared with KeyInputCallBack (a Vec)
    requests,       \* the request channel's contents, oldest first
    window,         \* the platform window's state as of the last pump
    calls,          \* adapter, Canvas and pump calls of the current iteration
    polls,          \* the key queries of the last drain, in order
    frame,          \* event drains completed
    pre,            \* the dispatcher state as the last drain found it
    set_by,         \* the send time of the request that set the flag in the last drain
    key_held,       \* logical keys whose last delivered KeyEvent was Down
    stats,          \* counts of platform transitions and of delivered events
    typed,          \* the code points the last pump passed to add_char
    window_adapters,\* AShell.window_adapters
    builder,        \* the WindowBuilder in progress, if any
    shell_builder,  \* the ShellBuilder in progress, if any
    a_pc            \* AShell: "setup", then the position in AShell::run

shell_vars == <<pc, running, update, active, mouse_pos, button_down, window_size,
                key_events, requests, window, calls, polls, frame, pre, set_by,
                key_held, stats, typed>>
ashell_vars == <<window_adapters, builder, shell_builder, a_pc>>
vars == <<pc, running, update, active, mouse_pos, button_down, window_size,
          key_events, requests, window, calls, polls, frame, pre, set_by,
          key_held, stats, typed, window_adapters, builder, shell_builder, a_pc>>

Buttons == <<"Left", "Middle", "Right">>

Call(name, args) == [call |-> name, args |-> args]

ZeroStats ==
    [ rising   |-> <<0, 0, 0>>,   \* button samples that rose since the last sample
      falling  |-> <<0, 0, 0>>,
      downs    |-> <<0, 0, 0>>,   \* MouseEvents delivered per button
      ups      |-> <<0, 0, 0>>,
      presses  |-> [k \in NativeKeys |-> 0],  \* key presses the platform sampled
      releases |-> [k \in NativeKeys |-> 0],
      held     |-> [k \in NativeKeys |-> 0],  \* polls that found the key down
      reports  |-> [k \in NativeKeys |-> 0],  \* polls at which a repeat query is true
      tdowns   |-> [k \in LogicalKeys |-> 0], \* tracker KeyEvents delivered
      tups     |-> [k \in LogicalKeys |-> 0],
      act_true  |-> 0,            \* activation callbacks delivered with true
      act_false |-> 0 ]           \* and with false

\* sizes a window is created with (WindowOptions bounds, as usize)
InitSizes == {<<800, 600>>}

\* minifb::Window as created by ShellBuilder::build
NewWindow(size) ==
    [ open |-> TRUE, size |-> size, mouse_pos |-> None,
      mouse_down |-> <<FALSE, FALSE, FALSE>>, active |-> FALSE, scroll |-> None,
      keys |-> {}, keys_prev |-> {}, repeat |-> {} ]

Snapshot ==
    [ mouse_pos |-> mouse_pos, button_down |-> button_down, active |-> active,
      window_size |-> window_size, update |-> update, key_events |-> key_events,
      key_held |-> key_held, requests |-> requests ]

\* Shell::new
Init ==
    /\ pc = "new"
    /\ running = TRUE
    /\ update = TRUE
    /\ active = FALSE
    /\ mouse_pos = <<0, 0>>
    /\ button_down = <<FALSE, FALSE, FALSE>>
    /\ \E size \in InitSizes :
          /\ window = NewWindow(size)
          /\ window_size = size
    /\ key_events = <<>>
    /\ requests = <<>>
    /\ calls = <<>>
    /\ polls = <<>>
    /\ frame = 0
    /\ set_by = None
    /\ key_held = {}
    /\ pre = Snapshot
    /\ stats = ZeroStats
    /\ typed = <<>>
    /\ window_adapters = <<>>      \* AShell::new
    /\ builder = None
    /\ shell_builder = None
    /\ a_pc = "setup"

\* --------------------------------------------------------- the key tracker
\* key_event_helper_down: the adapter call it makes, if any
key_event_helper_down(key, w) ==
    IF is_key_pressed(w, key.native, KeyRepeat(key.native))
    THEN <<Call("key_event", KeyEvent(key.key, "Down", <<>>))>>
    ELSE <<>>

\* key_event_helper_up: the adapter call it makes, if any
key_event_helper_up(key, w) ==
    IF is_key_released(w, key.native)
    THEN <<Call("key_event", KeyEvent(key.key, "Up", <<>>))>>
    ELSE <<>>

\* the platform queries the two helpers make
PollDown(key) ==
    [op |-> "is_key_pressed", native |-> key.native, repeat |-> KeyRepeat(key.native)]
PollUp(key) ==
    [op |-> "is_key_released", native |-> key.native, repeat |-> "No"]

DownsOf(group, w) ==
    Flatten([i \in DOMAIN group |-> key_event_helper_down(group[i], w)])
UpsOf(group, w) ==
    Flatten([i \in DOMAIN group |-> key_event_helper_up(group[i], w)])

\* the tracked-key block of drain_events, in the order of its calls
TrackerCalls(w) ==
    DownsOf(PollGroup1, w) \o UpsOf(PollGroup1, w)
        \o DownsOf(PollGroup2, w) \o UpsOf(PollGroup2, w)
TrackerPollsPerKey ==
    Flatten([i \in DOMAIN PollGroup1 |->
                <<PollDown(PollGroup1[i]), PollUp(PollGroup1[i])>>])
        \o Flatten([i \in DOMAIN PollGroup2 |->
                <<PollDown(PollGroup2[i]), PollUp(PollGroup2[i])>>])
TrackerPolls ==
    [i \in DOMAIN PollGroup1 |-> PollDown(PollGroup1[i])]
        \o [i \in DOMAIN PollGroup1 |-> PollUp(PollGroup1[i])]
        \o [i \in DOMAIN PollGroup2 |-> PollDown(PollGroup2[i])]
        \o [i \in DOMAIN PollGroup2 |-> PollUp(PollGroup2[i])]

\* ------------------------------------------------------ drain_events parts
\* push_mouse_event: the MouseEvent carries the last-known position
push_mouse_event(pos, pressed, button) ==
    Call("mouse_event",
         [x |-> pos[1], y |-> pos[2], button |-> button,
          state |-> IF pressed THEN "Down" ELSE "Up"])

\* one button's level diff
ButtonCallsLevelTriggered(pos, i, level, last) ==
    IF level THEN <<push_mouse_event(pos, TRUE, Buttons[i])>>
    ELSE IF last[i] THEN <<push_mouse_event(pos, FALSE, Buttons[i])>> ELSE <<>>
ButtonCalls(pos, i, level, last) ==
    IF level # last[i]
    THEN IF level THEN <<push_mouse_event(pos, TRUE, Buttons[i])>>
                  ELSE <<push_mouse_event(pos, FALSE, Buttons[i])>>
    ELSE <<>>

\* "while let Some(event) = key_events.pop()": the Vec is popped from its end
TextCallsFifo(queue) == [i \in 1..Len(queue) |-> Call("key_event", queue[i])]
TextCallsPopOnce(queue) ==
    IF queue = <<>> THEN <<>> ELSE <<Call("key_event", queue[Len(queue)])>>
TextCalls(queue) ==
    [i \in 1..Len(queue) |-> Call("key_event", Reverse(queue)[i])]

\* "for request in try_iter()": each pass first takes the next request off the
\* channel, then breaks if the flag is already set
\* (taken = requests already taken off the channel)
RECURSIVE receive_from(_, _, _, _)
receive_from(chan, taken, upd, by) ==
    IF taken = Len(chan)
    THEN [chan |-> <<>>, update |-> upd, set_by |-> by]
    ELSE LET request == chan[taken + 1]
             rest == SubSeq(chan, taken + 2, Len(chan))
         IN  IF upd
             THEN [chan |-> rest, update |-> upd, set_by |-> by]
             ELSE IF request.req = "Update"
                  THEN receive_from(chan, taken + 1, TRUE, Some(request.sent))
                  ELSE receive_from(chan, taken + 1, upd, by)
receive_requests_discard(chan, upd, by) ==
    [chan |-> <<>>, update |-> upd, set_by |-> by]
receive_requests(chan, upd, by) == receive_from(chan, 0, upd, by)

\* the KeyEvents among a sequence of calls
IsKeyEventCall(c) == c.call = "key_event"
KeyEventsOf(cs) ==
    LET sel == SelectSeq(cs, IsKeyEventCall) IN [i \in 1..Len(sel) |-> sel[i].args]

\* the MouseEvents among a sequence of calls
IsMouseEventCall(c) == c.call = "mouse_event"
MouseEventsOf(cs) ==
    LET sel == SelectSeq(cs, IsMouseEventCall) IN [i \in 1..Len(sel) |-> sel[i].args]

\* how many of the MouseEvents are for a button, in a direction
CountMouse(mev, button, state) ==
    Cardinality({i \in DOMAIN mev : mev[i].button = button /\ mev[i].state = state})
\* how many of the KeyEvents are tracker events (no text) for a key, in a direction
CountTracked(kev, key, state) ==
    Cardinality({i \in DOMAIN kev :
                    kev[i].key = key /\ kev[i].state = state /\ kev[i].text = <<>>})

\* the keys held according to the delivered events, after a run of them
HeldAfter(held, evs) ==
    {k \in held \cup {evs[i].key : i \in DOMAIN evs} :
        LET idx == {i \in DOMAIN evs : evs[i].key = k}
        IN  IF idx = {} THEN k \in held
            ELSE evs[CHOOSE i \in idx : \A j \in idx : j <= i].state = "Down"}

\* ------------------------------------------------------------ environment
SeqsUpTo(S, n) == UNION {[1..k -> S] : k \in 0..n}

\* what the platform may report in a run: the sets a pump draws its samples from
QuietEnv ==
    [ frames  |-> MaxFrames,                    \* pumps followed
      datas   |-> {FALSE},                      \* Canvas has a presentable buffer?
      opens   |-> {TRUE},                       \* window still open?
      sizes   |-> {},                           \* sizes the user may resize to
      mice    |-> {None},                       \* get_mouse_pos results
      btns    |-> {<<FALSE, FALSE, FALSE>>},    \* get_mouse_down levels
      actives |-> {FALSE},                      \* is_active results
      scrolls |-> {None},                       \* get_scroll_wheel results
      keydom  |-> {},                           \* native keys the user touches
      codes   |-> {} ]                          \* code points the user types

\* the button samples of a pump, counted against the previous sample
CountEdges(st, old, new) ==
    [st EXCEPT
        !.rising  = [i \in 1..3 |-> @[i] + IF new.mouse_down[i] /\ ~old.mouse_down[i]
                                           THEN 1 ELSE 0],
        !.falling = [i \in 1..3 |-> @[i] + IF ~new.mouse_down[i] /\ old.mouse_down[i]
                                           THEN 1 ELSE 0],
        !.presses  = [k \in NativeKeys |->
                        @[k] + IF k \in new.keys \ old.keys THEN 1 ELSE 0],
        !.releases = [k \in NativeKeys |->
                        @[k] + IF k \in old.keys \ new.keys THEN 1 ELSE 0],
        !.held     = [k \in NativeKeys |-> @[k] + IF k \in new.keys THEN 1 ELSE 0],
        !.reports  = [k \in NativeKeys |->
                        @[k] + IF is_key_pressed(new, k, "Yes") THEN 1 ELSE 0]]

\* the events a drain delivered, counted
CountActive(cs, value) ==
    Cardinality({i \in DOMAIN cs : cs[i] = Call("active", [active |-> value])})
CountEvents(st, cs) ==
    LET mev == MouseEventsOf(cs)
        kev == KeyEventsOf(cs)
    IN [st EXCEPT
        !.act_true = @ + CountActive(cs, TRUE),
        !.act_false = @ + CountActive(cs, FALSE),
        !.downs = [i \in 1..3 |-> @[i] + CountMouse(mev, Buttons[i], "Down")],
        !.ups   = [i \in 1..3 |-> @[i] + CountMouse(mev, Buttons[i], "Up")],
        !.tdowns = [k \in LogicalKeys |-> @[k] + CountTracked(kev, k, "Down")],
        !.tups   = [k \in LogicalKeys |-> @[k] + CountTracked(kev, k, "Up")]]

\* ----------------------------------------------------------- Shell actions
\* Shell::set_running, callable on the shell until run consumes it
SetRunning ==
    /\ pc = "new"
    /\ \E b \in BOOLEAN : running' = b
    /\ running' # running
    /\ UNCHANGED <<pc, update, active, mouse_pos, button_down, window_size,
                   key_events, requests, window, calls, polls, frame, pre, set_by,
                   key_held, stats, typed>>
    /\ UNCHANGED ashell_vars

\* Shell::set_update, callable on the shell until run consumes it
SetUpdate ==
    /\ pc = "new"
    /\ \E b \in BOOLEAN : update' = b
    /\ update' # update
    /\ UNCHANGED <<pc, running, active, mouse_pos, button_down, window_size,
                   key_events, requests, window, calls, polls, frame, pre, set_by,
                   key_held, stats, typed>>
    /\ UNCHANGED ashell_vars

\* Shell::run is entered
Run ==
    /\ pc = "new"
    /\ pc' = "check"
    /\ UNCHANGED <<running, update, active, mouse_pos, button_down, window_size,
                   key_events, requests, window, calls, polls, frame, pre, set_by,
                   key_held, stats, typed>>
    /\ UNCHANGED ashell_vars

\* "if !self.running() || !self.window.is_open() { break; }"
LoopExitNoOpenCheck == ~running
LoopExit == ~running \/ ~window.open

Check ==
    /\ pc = "check"
    /\ pc' = IF LoopExit THEN "done" ELSE "render"
    /\ calls' = <<>>
    /\ UNCHANGED <<running, update, active, mouse_pos, button_down, window_size,
                   key_events, requests, window, polls, frame, pre, set_by,
                   key_held, stats, typed>>
    /\ UNCHANGED ashell_vars

\* "self.adapter.run(..); if self.update() { self.set_update(false); }"
Render ==
    /\ pc = "render"
    /\ calls' = Append(calls, Call("run", [update |-> update]))
    /\ update' = IF update THEN FALSE ELSE update
    /\ pc' = "present"
    /\ UNCHANGED <<running, active, mouse_pos, button_down, window_size,
                   key_events, requests, window, polls, frame, pre, set_by,
                   key_held, stats, typed>>
    /\ UNCHANGED ashell_vars

\* the statement of Shell::run that follows the present step, whatever flip
\* returned
AfterPresentOnlyIfFlipped(flipped) == IF flipped THEN "drain" ELSE "check"
AfterPresent(flipped) == "drain"

\* Shell::flip: the Canvas is asked for its buffer (data is whether it has
\* one); a buffer is presented with the last-known size
flip(data, size) ==
    [ calls  |-> <<Call("canvas.data", [some |-> data])>>
                    \o (IF data THEN <<Call("update_with_buffer", [size |-> size])>>
                                ELSE <<>>),
      result |-> data ]

\* "if !self.flip() { self.window.update(); }"
PresentCallsAlwaysUpdate(data, size) ==
    flip(data, size).calls \o <<Call("window.update", <<>>)>>
PresentCalls(data, size) ==
    LET flipped == flip(data, size)
    IN  flipped.calls
            \o (IF ~flipped.result THEN <<Call("window.update", <<>>)>> ELSE <<>>)

\* the present step: one of the two calls pumps the platform, which samples
\* its inputs and runs the input callback
Present(E) ==
    /\ pc = "present"
    /\ frame < E.frames
    /\ \E data \in E.datas :
          /\ calls' = calls \o PresentCalls(data, window_size)
          /\ pc' = AfterPresent(flip(data, window_size).result)
    /\ \E o \in (IF window.open THEN E.opens ELSE {FALSE}),
          sz \in E.sizes \cup {window.size},
          m \in E.mice, b \in E.btns, a \in E.actives, sc \in E.scrolls,
          ks \in SUBSET E.keydom :
          \E rp \in SUBSET (ks \cap window.keys) :
             window' = [ open |-> o, size |-> sz, mouse_pos |-> m, mouse_down |-> b,
                         active |-> a, scroll |-> sc, keys |-> ks,
                         keys_prev |-> window.keys, repeat |-> rp ]
    /\ stats' = CountEdges(stats, window, window')
    /\ \E codes \in SeqsUpTo(E.codes, MaxChars) :
          /\ typed' = codes
          /\ key_events' = add_chars(key_events, codes)
    /\ UNCHANGED <<running, update, active, mouse_pos, button_down, window_size,
                   requests, polls, frame, pre, set_by, key_held>>
    /\ UNCHANGED ashell_vars

\* "(pos.0.floor(), pos.1.floor()) != self.mouse_pos" for a reported position
MouseMovedUnfloored(sample, last) == IsSome(sample) /\ Unwrap(sample) # last
MouseMoved(sample, last) == IsSome(sample) /\ FloorPos(Unwrap(sample)) # last

\* the mouse-move block: the callback carries the position as reported
MouseCallsWhenReported(sample, last) ==
    IF IsSome(sample)
    THEN <<Call("mouse", [x |-> Unwrap(sample)[1], y |-> Unwrap(sample)[2]])>>
    ELSE <<>>
MouseCalls(sample, last) ==
    IF MouseMoved(sample, last)
    THEN <<Call("mouse", [x |-> Unwrap(sample)[1], y |-> Unwrap(sample)[2]])>>
    ELSE <<>>
MousePosAfter(sample, last) ==
    IF MouseMoved(sample, last) THEN FloorPos(Unwrap(sample)) ELSE last

\* the focus block
ActiveCallsLevelTriggered(w, last) ==
    IF w.active THEN <<Call("active", [active |-> w.active])>> ELSE <<>>
ActiveCalls(w, last) ==
    IF last # w.active THEN <<Call("active", [active |-> w.active])>> ELSE <<>>

\* the three button blocks, left, middle, right
AllButtonCallsReportedPos(pos, w, last) ==
    LET at == IF IsSome(w.mouse_pos) THEN Unwrap(w.mouse_pos) ELSE pos
    IN  ButtonCalls(at, 1, w.mouse_down[1], last)
            \o ButtonCalls(at, 2, w.mouse_down[2], last)
            \o ButtonCalls(at, 3, w.mouse_down[3], last)
AllButtonCalls(pos, w, last) ==
    ButtonCalls(pos, 1, w.mouse_down[1], last)
        \o ButtonCalls(pos, 2, w.mouse_down[2], last)
        \o ButtonCalls(pos, 3, w.mouse_down[3], last)
ButtonDownAfterPressOnly(w, last) ==
    [i \in 1..3 |-> IF w.mouse_down[i] /\ ~last[i] THEN TRUE ELSE last[i]]
ButtonDownAfter(w, last) ==
    [i \in 1..3 |-> IF w.mouse_down[i] # last[i] THEN w.mouse_down[i] ELSE last[i]]

\* the scroll block
ScrollCallsDefaultDelta(w) ==
    IF IsSome(w.scroll)
    THEN <<Call("scroll", [dx |-> Unwrap(w.scroll)[1], dy |-> Unwrap(w.scroll)[2]])>>
    ELSE <<Call("scroll", [dx |-> 0, dy |-> 0])>>
ScrollCalls(w) ==
    IF IsSome(w.scroll)
    THEN <<Call("scroll", [dx |-> Unwrap(w.scroll)[1], dy |-> Unwrap(w.scroll)[2]])>>
    ELSE <<>>

\* the resize block: the Canvas first, then the adapter, both with the new size
ResizeCallsAdapterOnly(w, last) ==
    IF last # w.size
    THEN <<Call("resize", [width |-> w.size[1], height |-> w.size[2]])>>
    ELSE <<>>
ResizeCalls(w, last) ==
    IF last # w.size
    THEN << Call("canvas.resize", [width |-> w.size[1], height |-> w.size[2]]),
            Call("resize", [width |-> w.size[1], height |-> w.size[2]]) >>
    ELSE <<>>

\* every call of one drain_events, in program order
DrainCalls(w) ==
    LET pos == MousePosAfter(w.mouse_pos, mouse_pos)
    IN  MouseCalls(w.mouse_pos, mouse_pos)
            \o ActiveCalls(w, active)
            \o AllButtonCalls(pos, w, button_down)
            \o ScrollCalls(w)
            \o TextCalls(key_events)
            \o TrackerCalls(w)
            \o ResizeCalls(w, window_size)

\* Shell::drain_events
DrainEvents ==
    /\ pc = "drain"
    /\ \E drained \in {DrainCalls(window)},
          rx \in {receive_requests(requests, update, None)},
          kev \in {KeyEventsOf(DrainCalls(window))} :
           /\ pre' = Snapshot
           /\ calls' = calls \o drained
           /\ mouse_pos' = MousePosAfter(window.mouse_pos, mouse_pos)
           /\ active' = window.active
           /\ button_down' = ButtonDownAfter(window, button_down)
           /\ key_events' = <<>>
           /\ polls' = TrackerPolls
           /\ window_size' = window.size
           /\ requests' = rx.chan
           /\ update' = rx.update
           /\ set_by' = rx.set_by
           /\ key_held' = HeldAfter(key_held, kev)
           /\ stats' = CountEvents(stats, drained)
    /\ frame' = frame + 1
    /\ pc' = "check"
    /\ UNCHANGED <<running, window, typed>>
    /\ UNCHANGED ashell_vars

\* a holder of a cloned Sender sends ShellRequest::Update; the request is
\* stamped with the number of drains completed when it was sent
Send ==
    /\ pc # "done"
    /\ Len(requests) < MaxSends
    /\ requests' = Append(requests, [req |-> "Update", sent |-> frame])
    /\ UNCHANGED <<pc, running, update, active, mouse_pos, button_down, window_size,
                   key_events, window, calls, polls, frame, pre, set_by,
                   key_held, stats, typed>>
    /\ UNCHANGED ashell_vars

\* ---------------------------------------------------------- AShell actions
\* f64 "as usize": saturating, so a negative value becomes 0
AsUsize(v) == IF v < 0 THEN 0 ELSE v

Rectangle(x, y, width, height) == [x |-> x, y |-> y, width |-> width, height |-> height]

\* AShell::create_window: a builder with the default options
DefaultWindowBuilder ==
    [ title |-> "", borderless |-> FALSE, resizeable |-> FALSE,
      always_on_top |-> FALSE, bounds |-> Rectangle(0, 0, 100, 100) ]

create_window ==
    /\ a_pc = "setup"
    /\ builder = None
    /\ Len(window_adapters) < MaxWindows
    /\ builder' = Some(DefaultWindowBuilder)
    /\ UNCHANGED <<window_adapters, a_pc>>
    /\ UNCHANGED shell_vars /\ UNCHANGED shell_builder

\* WindowBuilder::title
builder_title ==
    /\ IsSome(builder)
    /\ \E title \in {"", "orbtk"} :
          builder' = Some([Unwrap(builder) EXCEPT !.title = title])
    /\ UNCHANGED <<window_adapters, a_pc>>
    /\ UNCHANGED shell_vars /\ UNCHANGED shell_builder

\* WindowBuilder::borderless
builder_borderless ==
    /\ IsSome(builder)
    /\ \E borderless \in BOOLEAN :
          builder' = Some([Unwrap(builder) EXCEPT !.borderless = borderless])
    /\ UNCHANGED <<window_adapters, a_pc>>
    /\ UNCHANGED shell_vars /\ UNCHANGED shell_builder

\* WindowBuilder::resizeable
builder_resizeable ==
    /\ IsSome(builder)
    /\ \E resizeable \in BOOLEAN :
          builder' = Some([Unwrap(builder) EXCEPT !.resizeable = resizeable])
    /\ UNCHANGED <<window_adapters, a_pc>>
    /\ UNCHANGED shell_vars /\ UNCHANGED shell_builder

\* WindowBuilder::always_on_top
builder_always_on_top ==
    /\ IsSome(builder)
    /\ \E always_on_top \in BOOLEAN :
          builder' = Some([Unwrap(builder) EXCEPT !.always_on_top = always_on_top])
    /\ UNCHANGED <<window_adapters, a_pc>>
    /\ UNCHANGED shell_vars /\ UNCHANGED shell_builder

\* WindowBuilder::bounds
builder_bounds ==
    /\ IsSome(builder)
    /\ \E bounds \in {Rectangle(0, 0, 100, 100), Rectangle(10, 20, 640, 480)} :
          builder' = Some([Unwrap(builder) EXCEPT !.bounds = bounds])
    /\ UNCHANGED <<window_adapters, a_pc>>
    /\ UNCHANGED shell_vars /\ UNCHANGED shell_builder

\* the minifb::Window that WindowBuilder::build creates from the options
BuiltWindow(b) ==
    [ name |-> b.title,
      width |-> AsUsize(b.bounds.width), height |-> AsUsize(b.bounds.height),
      resize |-> b.resizeable, topmost |-> b.always_on_top,
      borderless |-> b.borderless, title |-> ~b.borderless,
      position |-> <<b.bounds.x, b.bounds.y>>,
      open |-> TRUE ]

\* WindowBuilder::build: the (window, adapter) pair is pushed onto the registry
build ==
    /\ IsSome(builder)
    /\ window_adapters' = Append(window_adapters,
            [window |-> BuiltWindow(Unwrap(builder)),
             adapter |-> Len(window_adapters) + 1])
    /\ builder' = None
    /\ UNCHANGED a_pc
    /\ UNCHANGED shell_vars /\ UNCHANGED shell_builder

\* the user closes one of the registry's windows
close_window ==
    /\ \E i \in DOMAIN window_adapters :
          /\ window_adapters[i].window.open
          /\ window_adapters' = [window_adapters EXCEPT ![i].window.open = FALSE]
    /\ UNCHANGED <<builder, a_pc>>
    /\ UNCHANGED shell_vars /\ UNCHANGED shell_builder

\* AShell::run is entered (it takes the registry by value: no builder is open)
a_run ==
    /\ a_pc = "setup"
    /\ builder = None
    /\ a_pc' = "loop"
    /\ UNCHANGED <<window_adapters, builder>>
    /\ UNCHANGED shell_vars /\ UNCHANGED shell_builder

\* one pass of "loop { if self.window_adapters.is_empty() { return; } }"
a_run_loop ==
    /\ a_pc = "loop"
    /\ a_pc' = IF window_adapters = <<>> THEN "returned" ELSE "loop"
    /\ UNCHANGED <<window_adapters, builder>>
    /\ UNCHANGED shell_vars /\ UNCHANGED shell_builder


\* ----------------------------------------------------- ShellBuilder actions
\* Rectangle::default(): the derived Default of a struct of four f64 fields
RectangleDefault == Rectangle(0, 0, 0, 0)

\* ShellBuilder::new
DefaultShellBuilder ==
    [ title |-> "", borderless |-> FALSE, resizeable |-> FALSE,
      always_on_top |-> FALSE, bounds |-> RectangleDefault ]

ShellBuilder_new ==
    /\ shell_builder = None
    /\ shell_builder' = Some(DefaultShellBuilder)
    /\ UNCHANGED <<window_adapters, builder, a_pc>>
    /\ UNCHANGED shell_vars

\* ShellBuilder::title
ShellBuilder_title ==
    /\ IsSome(shell_builder)
    /\ \E title \in {"", "orbtk"} :
          shell_builder' = Some([Unwrap(shell_builder) EXCEPT !.title = title])
    /\ UNCHANGED <<window_adapters, builder, a_pc>>
    /\ UNCHANGED shell_vars

\* ShellBuilder::borderless
ShellBuilder_borderless ==
    /\ IsSome(shell_builder)
    /\ \E borderless \in BOOLEAN :
          shell_builder' = Some([Unwrap(shell_builder) EXCEPT !.borderless = borderless])
    /\ UNCHANGED <<window_adapters, builder, a_pc>>
    /\ UNCHANGED shell_vars

\* ShellBuilder::resizeable
ShellBuilder_resizeable ==
    /\ IsSome(shell_builder)
    /\ \E resizeable \in BOOLEAN :
          shell_builder' = Some([Unwrap(shell_builder) EXCEPT !.resizeable = resizeable])
    /\ UNCHANGED <<window_adapters, builder, a_pc>>
    /\ UNCHANGED shell_vars

\* ShellBuilder::always_on_top
ShellBuilder_always_on_top ==
    /\ IsSome(shell_builder)
    /\ \E always_on_top \in BOOLEAN :
          shell_builder' =
              Some([Unwrap(shell_builder) EXCEPT !.always_on_top = always_on_top])
    /\ UNCHANGED <<window_adapters, builder, a_pc>>
    /\ UNCHANGED shell_vars

\* ShellBuilder::bounds
ShellBuilder_bounds ==
    /\ IsSome(shell_builder)
    /\ \E bounds \in {Rectangle(0, 0, 100, 100), Rectangle(10, 20, 640, 480)} :
          shell_builder' = Some([Unwrap(shell_builder) EXCEPT !.bounds = bounds])
    /\ UNCHANGED <<window_adapters, builder, a_pc>>
    /\ UNCHANGED shell_vars

\* ShellBuilder::build: the window is created from the options and handed to
\* Shell::new; the shell of the model becomes the one built
ShellBuilder_build ==
    /\ IsSome(shell_builder)
    /\ pc = "new"
    /\ LET b == Unwrap(shell_builder)
           size == <<AsUsize(b.bounds.width), AsUsize(b.bounds.height)>>
       IN  /\ window' = NewWindow(size)
           /\ window_size' = size
           /\ pre' = [ mouse_pos |-> <<0, 0>>, button_down |-> <<FALSE, FALSE, FALSE>>,
                       active |-> FALSE, window_size |-> size, update |-> TRUE,
                       key_events |-> <<>>, key_held |-> key_held,
                       requests |-> <<>> ]
    /\ running' = TRUE
    /\ update' = TRUE
    /\ active' = FALSE
    /\ mouse_pos' = <<0, 0>>
    /\ button_down' = <<FALSE, FALSE, FALSE>>
    /\ key_events' = <<>>
    /\ requests' = <<>>
    /\ shell_builder' = None
    /\ UNCHANGED <<pc, calls, polls, frame, set_by, key_held, stats, typed>>
    /\ UNCHANGED <<window_adapters, builder, a_pc>>

\* ---------------------------------------------------------- specifications
\* the registry: windows are configured and built, run is entered, and every
\* window is eventually closed by its user
NextAShell ==
    \/ create_window \/ builder_title \/ builder_borderless \/ builder_resizeable
    \/ builder_always_on_top \/ builder_bounds \/ build \/ close_window
    \/ a_run \/ a_run_loop
SpecAShell ==
    /\ Init /\ [][NextAShell]_vars
    /\ WF_vars(a_run_loop) /\ WF_vars(close_window)

\* the two builders, one in use at a time: options are set in any order, then
\* the window is built; the registry receives one window
NextBuilders ==
    \/ /\ builder = None
       /\ \/ ShellBuilder_new \/ ShellBuilder_title \/ ShellBuilder_borderless
          \/ ShellBuilder_resizeable \/ ShellBuilder_always_on_top
          \/ ShellBuilder_bounds \/ ShellBuilder_build
    \/ /\ shell_builder = None
       /\ \/ (window_adapters = <<>> /\ create_window)
          \/ builder_title \/ builder_borderless \/ builder_resizeable
          \/ builder_always_on_top \/ builder_bounds \/ build
SpecBuilders == Init /\ [][NextBuilders]_vars

UpdateEnv == [QuietEnv EXCEPT !.datas = {FALSE, TRUE}]
NextUpdate ==
    \/ SetRunning \/ SetUpdate \/ Run \/ Check \/ Render
    \/ Present(UpdateEnv) \/ DrainEvents \/ Send
SpecUpdate == Init /\ [][NextUpdate]_vars

AllLevels == {<<l, m, r>> : l \in BOOLEAN, m \in BOOLEAN, r \in BOOLEAN}
ButtonsEnv ==
    [QuietEnv EXCEPT
        !.btns = AllLevels,
        !.mice = {None, Some(<<2 * Scale + 1, Scale>>)}]
NextButtons ==
    \/ SetRunning \/ SetUpdate \/ Run \/ Check \/ Render
    \/ Present(ButtonsEnv) \/ DrainEvents
SpecButtons == Init /\ [][NextButtons]_vars

MouseEnv ==
    [QuietEnv EXCEPT
        !.mice = {None} \cup {Some(<<x, y>>) : x \in 0..MaxCoord, y \in 0..MaxCoord}]
NextMouse ==
    \/ SetRunning \/ SetUpdate \/ Run \/ Check \/ Render
    \/ Present(MouseEnv) \/ DrainEvents
SpecMouse == Init /\ [][NextMouse]_vars

KeysEnv == [QuietEnv EXCEPT !.frames = MaxKeyFrames, !.keydom = {"A", "Left"}]
NextKeys ==
    \/ SetRunning \/ SetUpdate \/ Run \/ Check \/ Render
    \/ Present(KeysEnv) \/ DrainEvents
SpecKeys == Init /\ [][NextKeys]_vars

\* the two Ctrl keys, both bound to the logical key Control
ChordEnv == [QuietEnv EXCEPT !.keydom = {"LeftCtrl", "RightCtrl"}]
NextChord ==
    \/ SetRunning \/ SetUpdate \/ Run \/ Check \/ Render
    \/ Present(ChordEnv) \/ DrainEvents
SpecChord == Init /\ [][NextChord]_vars

\* the window gains and loses the focus
FocusEnv == [QuietEnv EXCEPT !.actives = {FALSE, TRUE}, !.datas = {FALSE, TRUE}]
NextFocus ==
    \/ SetRunning \/ SetUpdate \/ Run \/ Check \/ Render
    \/ Present(FocusEnv) \/ DrainEvents
SpecFocus == Init /\ [][NextFocus]_vars

\* a platform that often has nothing to report: no mouse position (the
\* pointer is outside the window), no scroll delta
SparseEnv ==
    [QuietEnv EXCEPT
        !.mice = {None, Some(<<Scale + 1, Scale>>)},
        !.scrolls = {None, Some(<<0, 1>>), Some(<<-1, 0>>)},
        !.btns = {<<FALSE, FALSE, FALSE>>, <<TRUE, FALSE, FALSE>>},
        !.actives = {FALSE, TRUE}]
NextSparse ==
    \/ SetRunning \/ SetUpdate \/ Run \/ Check \/ Render
    \/ Present(SparseEnv) \/ DrainEvents
SpecSparse == Init /\ [][NextSparse]_vars

\* typing: letters and Enter arrive as text, Enter also as a tracked key
TypingEnv ==
    [QuietEnv EXCEPT !.frames = MaxBusyFrames, !.keydom = {"Enter"},
                     !.codes = {65, 10}]
NextTyping ==
    \/ SetRunning \/ SetUpdate \/ Run \/ Check \/ Render
    \/ Present(TypingEnv) \/ DrainEvents
SpecTyping == Init /\ [][NextTyping]_vars

\* every level the dispatcher diffs changes: position, buttons, focus, size
LevelsEnv ==
    [QuietEnv EXCEPT
        !.frames = MaxBusyFrames,
        !.mice = {None, Some(<<Scale + 1, Scale>>), Some(<<0, 1>>)},
        !.btns = {<<FALSE, FALSE, FALSE>>, <<TRUE, FALSE, FALSE>>,
                  <<FALSE, TRUE, TRUE>>},
        !.actives = {FALSE, TRUE},
        !.sizes = {<<1024, 768>>}]
NextLevels ==
    \/ SetRunning \/ SetUpdate \/ Run \/ Check \/ Render
    \/ Present(LevelsEnv) \/ DrainEvents
SpecLevels == Init /\ [][NextLevels]_vars

\* frames in which nothing, or one kind of thing, happens: News is the kinds
\* of input the coming drain will find new
News ==
    {kind \in {"mouse", "buttons", "active", "size", "scroll", "text", "keys",
               "request"} :
        CASE kind = "mouse" -> MouseMoved(window.mouse_pos, mouse_pos)
          [] kind = "buttons" -> window.mouse_down # button_down
          [] kind = "active" -> window.active # active
          [] kind = "size" -> window.size # window_size
          [] kind = "scroll" -> IsSome(window.scroll)
          [] kind = "text" -> key_events # <<>>
          [] kind = "keys" ->
                \E b \in Bindings :
                    \/ is_key_pressed(window, b.native, KeyRepeat(b.native))
                    \/ is_key_released(window, b.native)
          [] kind = "request" -> requests # <<>>}
CalmEnv ==
    [QuietEnv EXCEPT
        !.frames = MaxBusyFrames,
        !.mice = {None, Some(<<1, 0>>), Some(<<Scale, 0>>)},
        !.btns = {<<FALSE, FALSE, FALSE>>, <<TRUE, FALSE, FALSE>>},
        !.actives = {FALSE, TRUE},
        !.sizes = {<<1024, 768>>},
        !.scrolls = {None, Some(<<0, 1>>)},
        !.keydom = {"Left"},
        !.codes = {65}]
NextCalm ==
    \/ SetRunning \/ SetUpdate \/ Run \/ Check \/ Render
    \/ (Present(CalmEnv) /\ Cardinality(News') <= 1) \/ DrainEvents
    \/ (pc = "drain" /\ News = {} /\ Send)
SpecCalm == Init /\ [][NextCalm]_vars

\* a little of every input at once: a resize next to mouse, button, focus,
\* scroll, text and key input
FrameEnv ==
    [QuietEnv EXCEPT
        !.frames = MaxBusyFrames,
        !.sizes = {<<1024, 768>>},
        !.btns = {<<FALSE, FALSE, FALSE>>, <<TRUE, FALSE, FALSE>>},
        !.actives = {FALSE, TRUE},
        !.scrolls = {None, Some(<<0, 1>>)},
        !.keydom = {"Enter"},
        !.codes = {97}]
NextFrame ==
    \/ SetRunning \/ SetUpdate \/ Run \/ Check \/ Render
    \/ Present(FrameEnv) \/ DrainEvents
SpecFrame == Init /\ [][NextFrame]_vars

\* typed text: mapped, filtered, unmapped and invalid code points
TextEnv ==
    [QuietEnv EXCEPT !.frames = MaxBusyFrames,
                     !.codes = {8, 10, 27, 65, 127, 9786, 55296}]
NextText ==
    \/ SetRunning \/ SetUpdate \/ Run \/ Check \/ Render
    \/ Present(TextEnv) \/ DrainEvents
SpecText == Init /\ [][NextText]_vars

\* a window the user may close; the loop's steps are those of a sequential
\* program, so each is taken once it is enabled
LifeEnv ==
    [QuietEnv EXCEPT
        !.datas = {FALSE, TRUE},
        !.opens = {TRUE, FALSE},
        !.btns = {<<FALSE, FALSE, FALSE>>, <<TRUE, FALSE, FALSE>>},
        !.actives = {FALSE, TRUE}]
NextLife ==
    \/ SetRunning \/ SetUpdate \/ Run \/ Check \/ Render
    \/ Present(LifeEnv) \/ DrainEvents
SpecLife ==
    /\ Init /\ [][NextLife]_vars
    /\ WF_vars(Check) /\ WF_vars(Render)
    /\ WF_vars(Present(LifeEnv)) /\ WF_vars(DrainEvents)

\* ------------------------------------------------------------------ claims
\* C1: once a drain has run on the latest button samples, every button has
\* been sent exactly one MouseEvent Down per rising edge and one Up per
\* falling edge between consecutive samples, nothing for an unchanged level,
\* and its events alternate in direction, starting with Down.
ButtonEdgesExact ==
    pc \in {"check", "render", "present", "done"} =>
        \A i \in 1..3 :
            /\ stats.downs[i] = stats.rising[i]
            /\ stats.ups[i] = stats.falling[i]
            /\ stats.downs[i] - stats.ups[i] \in {0, 1}
            /\ CountMouse(MouseEventsOf(calls), Buttons[i], "Down")
                  + CountMouse(MouseEventsOf(calls), Buttons[i], "Up") <= 1
ButtonEdgesWitness ==
    /\ pc = "check"
    /\ stats.downs = <<2, 1, 1>>
    /\ stats.ups = <<1, 0, 1>>
    /\ MouseEventsOf(calls) = <<>>

\* C2: Update requests sent before one event drain coalesce into one redraw:
\* the drain that follows them sets the pending-update flag, and no request
\* sent before an earlier drain sets the flag again in a later frame.
CoalescedIntoOneRedraw ==
    (pc = "check" /\ IsSome(set_by)) => Unwrap(set_by) = frame - 1


\* C3: every KeyEvent delivered to the adapter is one level transition of its
\* logical key: no Down for a key whose last delivered event was Down, no Up
\* for a key whose last delivered event was not Down.
RECURSIVE Alternates(_, _)
Alternates(held, evs) ==
    IF evs = <<>> THEN TRUE
    ELSE /\ (Head(evs).state = "Down") => Head(evs).key \notin held
         /\ (Head(evs).state = "Up") => Head(evs).key \in held
         /\ Alternates(HeldAfter(held, <<Head(evs)>>), Tail(evs))
KeyEventsAreTransitions ==
    pc = "check" => Alternates(pre.key_held, KeyEventsOf(calls))

\* the keys the claims name as the repeat allow-list
ClaimedRepeatKeys == {"Left", "Right", "Up", "Down", "Backspace", "Delete"}

\* C4: a tracked key outside the repeat allow-list yields exactly one tracker
\* Down per press and one Up per release, however many polls it is held for.
NonRepeatKeyOneDownOneUp ==
    pc \in {"check", "render", "present", "done"} =>
        \A lk \in LogicalKeys \ ClaimedRepeatKeys :
            /\ stats.tdowns[lk] = SumOver(stats.presses, NativesOf(lk))
            /\ stats.tups[lk] = SumOver(stats.releases, NativesOf(lk))
NonRepeatKeyWitness ==
    /\ pc = "check"
    /\ stats.presses["A"] = 1 /\ stats.releases["A"] = 1
    /\ stats.held["A"] = 5
    /\ stats.tdowns["A(false)"] = 1 /\ stats.tups["A(false)"] = 1

\* C5: the keys queried with repeat are exactly Left, Right, Up, Down,
\* Backspace and Delete; such a key yields one Down per poll at which the
\* platform reports it pressed (N polls held with repeat give N Downs) and one
\* Up per release.
RepeatKeyDownPerPoll ==
    /\ \A i \in DOMAIN polls :
          polls[i].op = "is_key_pressed" =>
              (polls[i].repeat = "Yes" <=> polls[i].native \in ClaimedRepeatKeys)
    /\ pc \in {"check", "render", "present", "done"} =>
          \A k \in ClaimedRepeatKeys :
              /\ stats.tdowns[k] = stats.reports[k]
              /\ stats.tups[k] = stats.releases[k]
RepeatKeyWitness ==
    /\ pc = "check"
    /\ stats.held["Left"] = 5 /\ stats.reports["Left"] = 5
    /\ stats.releases["Left"] = 1
    /\ stats.tdowns["Left"] = 5 /\ stats.tups["Left"] = 1

\* C6: a drain calls adapter.mouse exactly when the platform reports a
\* position whose floored coordinates differ from the last-known ones, at most
\* once, with the position as reported; last-known is then the floored sample.
PixelOf(p) == <<p[1] \div Scale, p[2] \div Scale>>
IsMouseCall(c) == c.call = "mouse"
MouseCallsIn(cs) == SelectSeq(cs, IsMouseCall)
MouseMoveIffFloorChanged ==
    pc = "check" =>
        LET moves == MouseCallsIn(calls)
            sample == window.mouse_pos
            changed == IsSome(sample) /\ PixelOf(Unwrap(sample)) # PixelOf(pre.mouse_pos)
        IN  /\ Len(moves) = IF changed THEN 1 ELSE 0
            /\ changed => /\ moves[1].args = [x |-> Unwrap(sample)[1], y |-> Unwrap(sample)[2]]
                          /\ PixelOf(mouse_pos) = PixelOf(Unwrap(sample))
                          /\ mouse_pos = <<PixelOf(mouse_pos)[1] * Scale,
                                           PixelOf(mouse_pos)[2] * Scale>>
            /\ ~changed => mouse_pos = pre.mouse_pos
MouseMoveWitness ==
    /\ pc = "check"
    /\ pre.mouse_pos = <<Scale, Scale>>
    /\ window.mouse_pos = Some(<<2 * Scale, Scale>>)
    /\ mouse_pos = <<2 * Scale, Scale>>
    /\ Len(MouseCallsIn(calls)) = 1


\* C7: a drain that finds the window size changed makes exactly one Canvas
\* resize call and one adapter resize call, both with the new size, as the
\* last two calls of the drain (after every input callback of the frame); a
\* drain that finds the size unchanged makes neither.
IsResizeCall(c) == c.call \in {"canvas.resize", "resize"}
ResizeOnceAfterInput ==
    pc = "check" =>
        LET n == Len(calls)
            dims == [width |-> window.size[1], height |-> window.size[2]]
        IN  IF pre.window_size # window.size
            THEN /\ n >= 2
                 /\ calls[n - 1] = Call("canvas.resize", dims)
                 /\ calls[n] = Call("resize", dims)
                 /\ \A i \in 1..(n - 2) : ~IsResizeCall(calls[i])
                 /\ window_size = window.size
            ELSE \A i \in 1..n : ~IsResizeCall(calls[i])
ResizeWitness ==
    /\ pc = "check"
    /\ pre.window_size = <<800, 600>>
    /\ window.size = <<1024, 768>>
    /\ \E i, j, k \in DOMAIN calls :
          /\ calls[i].call = "mouse_event"
          /\ calls[j].call = "key_event" /\ calls[j].args.text = <<>>
          /\ calls[k].call = "scroll"
    /\ calls[Len(calls)] = Call("resize", [width |-> 1024, height |-> 768])

\* C8: unicode_to_key_event returns no event exactly for a code point that is
\* unmappable (Unknown) or decodes to Up, Down, Left, Right, Backspace,
\* Control, Home, Escape or Delete, and otherwise one KeyEvent Down whose text
\* is the decoded character; no filtered key reaches the adapter as text.
ClaimedTextFilter ==
    {"Up", "Down", "Left", "Right", "Backspace", "Control", "Home", "Escape",
     "Delete", "Unknown"}
DecodedKey(code) == IF from_u32(code) = None THEN "Unknown" ELSE KeyFrom(code)
RECURSIVE ClaimedTextEvents(_)
ClaimedTextEvents(codes) ==
    IF codes = <<>> THEN <<>>
    ELSE (IF DecodedKey(Head(codes)) \in ClaimedTextFilter
          THEN <<>>
          ELSE <<[key |-> DecodedKey(Head(codes)), state |-> "Down",
                  text |-> <<Head(codes)>>]>>)
         \o ClaimedTextEvents(Tail(codes))
TextPathFiltered ==
    /\ pc = "drain" => key_events = ClaimedTextEvents(typed)
    /\ \A i \in DOMAIN calls :
          (calls[i].call = "key_event" /\ calls[i].args.text # <<>>) =>
              /\ calls[i].args.key \notin ClaimedTextFilter
              /\ calls[i].args.state = "Down"
TextPathWitness ==
    /\ pc = "drain"
    /\ typed = <<65, 8>>
    /\ key_events = <<[key |-> "A(true)", state |-> "Down", text |-> <<65>>]>>

\* C9: Shell::run leaves its loop at the check at the top of an iteration when
\* the shell is not running or the window is closed, making no call in that
\* iteration and none afterwards; the render and present steps run only on a
\* running shell with an open window; and once the window reports closed, run
\* terminates.
RunStopsAtCheck ==
    /\ [](pc \in {"render", "present"} => (running /\ window.open))
    /\ [][(pc = "check" /\ (~running \/ ~window.open))
            => (pc' = "done" /\ calls' = <<>>)]_vars
    /\ [][pc = "done" => (pc' = "done" /\ calls' = calls)]_vars
    /\ (pc \in {"check", "render", "present", "drain"} /\ ~window.open) ~> (pc = "done")
RunStopsWitness ==
    /\ pc = "done"
    /\ running
    /\ ~window.open
    /\ frame >= 2
    /\ calls = <<>>


\* C10: AShell::run terminates: the registry's collection becomes empty as its
\* windows close, and run then returns.
AShellRunReturns == (a_pc = "loop") ~> (a_pc = "returned")

\* C11: a freshly created builder, from ShellBuilder::new and from
\* AShell::create_window alike, has an empty title, resizeable, always_on_top and
\* borderless false and bounds (0, 0, 100, 100); each setter changes only its
\* own option.
ClaimedDefaults ==
    [ title |-> "", borderless |-> FALSE, resizeable |-> FALSE,
      always_on_top |-> FALSE, bounds |-> Rectangle(0, 0, 100, 100) ]
BuilderFields == {"title", "borderless", "resizeable", "always_on_top", "bounds"}
ChangedFields(b, c) == {f \in BuilderFields : Unwrap(b)[f] # Unwrap(c)[f]}
SettersAreIndependent ==
    /\ [][ShellBuilder_title =>
            ChangedFields(shell_builder, shell_builder') \subseteq {"title"}]_vars
    /\ [][ShellBuilder_borderless =>
            ChangedFields(shell_builder, shell_builder') \subseteq {"borderless"}]_vars
    /\ [][ShellBuilder_resizeable =>
            ChangedFields(shell_builder, shell_builder') \subseteq {"resizeable"}]_vars
    /\ [][ShellBuilder_always_on_top =>
            ChangedFields(shell_builder, shell_builder') \subseteq {"always_on_top"}]_vars
    /\ [][ShellBuilder_bounds =>
            ChangedFields(shell_builder, shell_builder') \subseteq {"bounds"}]_vars
    /\ [][builder_title => ChangedFields(builder, builder') \subseteq {"title"}]_vars
    /\ [][builder_borderless =>
            ChangedFields(builder, builder') \subseteq {"borderless"}]_vars
    /\ [][builder_resizeable =>
            ChangedFields(builder, builder') \subseteq {"resizeable"}]_vars
    /\ [][builder_always_on_top =>
            ChangedFields(builder, builder') \subseteq {"always_on_top"}]_vars
    /\ [][builder_bounds => ChangedFields(builder, builder') \subseteq {"bounds"}]_vars
WindowBuilderDefaults ==
    [][create_window => builder' = Some(ClaimedDefaults)]_vars
IsTextCall(c) == c.call = "key_event" /\ c.args.text # <<>>
TextEventsIn(cs) ==
    LET sel == SelectSeq(cs, IsTextCall) IN [i \in 1..Len(sel) |-> sel[i].args]
CountOf(seq, e) == Cardinality({i \in DOMAIN seq : seq[i] = e})
SameBag(s1, s2) ==
    /\ Len(s1) = Len(s2)
    /\ \A i \in DOMAIN s1 : CountOf(s1, s1[i]) = CountOf(s2, s1[i])
TextDrainExhaustive ==
    /\ pc = "drain" => key_events = add_chars(<<>>, typed)
    /\ (pc = "check" /\ frame > 0) =>
          /\ key_events = <<>>
          /\ pre.key_events = add_chars(<<>>, typed)
          /\ SameBag(TextEventsIn(calls), pre.key_events)
TextDrainWitness ==
    /\ pc = "check"
    /\ frame > 1
    /\ typed = <<65, 10>>
    /\ Len(TextEventsIn(calls)) = 2

\* C13: once the pending-update flag is set the request drain stops and every
\* request not processed stays in the channel for the next frame's drain; no
\* request leaves the channel without being processed.
\* (a request is processed when the match on it is reached: all requests are
\* Update, so the first one sets the flag and none after it is processed)
ProcessedRequests == IF update \/ requests = <<>> THEN 0 ELSE 1
UnprocessedRequestsDeferred ==
    [][DrainEvents =>
          requests' = SubSeq(requests, ProcessedRequests + 1, Len(requests))]_vars

\* C14: in every drain the tracked keys are polled per key, poll_down
\* immediately followed by poll_up of the same key, the keys in the order in
\* which the bindings are constructed, identically in every frame.
PolledPerKeyInConstructionOrder ==
    (pc = "check" /\ frame > 0) =>
        /\ Len(polls) = 2 * Len(ConstructionOrder)
        /\ \A i \in DOMAIN ConstructionOrder :
              /\ polls[2 * i - 1].op = "is_key_pressed"
              /\ polls[2 * i - 1].native = ConstructionOrder[i].native
              /\ polls[2 * i].op = "is_key_released"
              /\ polls[2 * i].native = ConstructionOrder[i].native

\* C14 as amended: in every drain each binding is polled once for down and once
\* for up; the bindings form two blocks (the fifteen navigation and modifier
\* keys, then a, c, v, x), each block polls down for all its keys and then up
\* for all its keys, in the order of the calls in drain_events, identically in
\* every frame.
PollIndex(op, native) ==
    CHOOSE i \in DOMAIN polls : polls[i].op = op /\ polls[i].native = native
PolledOnce(op, native) ==
    Cardinality({i \in DOMAIN polls :
                    polls[i].op = op /\ polls[i].native = native}) = 1
BlockOrder(g) ==
    /\ \A i, j \in DOMAIN g :
          PollIndex("is_key_pressed", g[i].native)
              < PollIndex("is_key_released", g[j].native)
    /\ \A i, j \in DOMAIN g :
          i < j => /\ PollIndex("is_key_pressed", g[i].native)
                        < PollIndex("is_key_pressed", g[j].native)
                   /\ PollIndex("is_key_released", g[i].native)
                        < PollIndex("is_key_released", g[j].native)
PolledDownsThenUpsPerBlock ==
    (pc = "check" /\ frame > 0) =>
        /\ \A b \in Bindings : /\ PolledOnce("is_key_pressed", b.native)
                                /\ PolledOnce("is_key_released", b.native)
        /\ Len(polls) = 2 * Cardinality(Bindings)
        /\ BlockOrder(PollGroup1)
        /\ BlockOrder(PollGroup2)
        /\ \A i \in DOMAIN PollGroup1, j \in DOMAIN PollGroup2 :
              PollIndex("is_key_released", PollGroup1[i].native)
                  < PollIndex("is_key_pressed", PollGroup2[j].native)
PolledWitness ==
    /\ pc = "check"
    /\ frame > 1
    /\ key_held = {"Control"}
    /\ Len(polls) = 38

\* C15: in every iteration of Shell::run that passes the check the steps are,
\* in order, adapter run, clearing of the pending-update flag if set, present,
\* event drain; the drain runs exactly once per iteration whether or not the
\* present step found a buffer.
PumpCalls == {"update_with_buffer", "window.update"}
IsLoopCall(c) == c.call = "run" \/ c.call \in PumpCalls
IterationInOrder ==
    /\ [](pc = "render" => calls = <<>>)
    /\ [](pc = "present" => /\ Len(calls) = 1 /\ calls[1].call = "run"
                            /\ ~update)
    /\ [](pc = "drain" => /\ Len(calls) = 3 /\ calls[1].call = "run"
                          /\ calls[2].call = "canvas.data"
                          /\ calls[3].call \in PumpCalls)
    /\ []((pc = "check" /\ frame > 0) =>
              /\ Len(SelectSeq(calls, IsLoopCall)) = 2
              /\ calls[1].call = "run" /\ calls[3].call \in PumpCalls)
    /\ [][pc = "render" /\ pc' # pc => pc' = "present" /\ frame' = frame]_vars
    /\ [][pc = "present" /\ pc' # pc => pc' = "drain" /\ frame' = frame]_vars
    /\ [][pc = "drain" /\ pc' # pc => pc' = "check" /\ frame' = frame + 1]_vars
    /\ [][frame' # frame => pc = "drain"]_vars
IterationWitness ==
    /\ pc = "check"
    /\ frame = 2
    /\ calls[3].call = "window.update"
    /\ Len(calls) > 3

\* C16: in each frame exactly one of the two pump operations is performed: the
\* buffer is presented when the Canvas yields one (flip returns true), and
\* window.update() is called if and only if it yields none.
IsPumpCall(c) == c.call \in PumpCalls
IsDataCall(c) == c.call = "canvas.data"
ExactlyOnePump ==
    (pc = "drain" \/ (pc = "check" /\ frame > 0)) =>
        LET pumps == SelectSeq(calls, IsPumpCall)
            datas == SelectSeq(calls, IsDataCall)
        IN  /\ Len(datas) = 1
            /\ Len(pumps) = 1
            /\ pumps[1].call = "update_with_buffer" <=> datas[1].args.some
            /\ pumps[1].call = "window.update" <=> ~datas[1].args.some
ExactlyOnePumpWitness ==
    /\ pc = "drain"
    /\ frame = 1
    /\ calls[2] = Call("canvas.data", [some |-> TRUE])
    /\ calls[3].call = "update_with_buffer"

\* C17: within one drain the adapter callbacks are emitted in the order mouse
\* move, button events (left, middle, right), activation, scroll, queued text
\* events, tracked-key events, resize.
ClaimedStage(c) ==
    CASE c.call = "mouse" -> 1
      [] c.call = "mouse_event" -> 2
      [] c.call = "active" -> 3
      [] c.call = "scroll" -> 4
      [] c.call = "key_event" -> IF c.args.text # <<>> THEN 5 ELSE 6
      [] c.call \in {"canvas.resize", "resize"} -> 7
      [] OTHER -> 0
ButtonRank(b) == CHOOSE i \in 1..3 : Buttons[i] = b
CallbacksInClaimedOrder ==
    (pc = "check" /\ frame > 0) =>
        \A i, j \in DOMAIN calls :
            i < j =>
                /\ ClaimedStage(calls[i]) <= ClaimedStage(calls[j])
                /\ (calls[i].call = "mouse_event" /\ calls[j].call = "mouse_event")
                      => ButtonRank(calls[i].args.button)
                            < ButtonRank(calls[j].args.button)

\* C18: active(b) is emitted in a frame if and only if the window's activation
\* flag b differs from the last-known flag (initially false), which is then set
\* to b; hence the delivered activation values strictly alternate, starting
\* with true.
IsActiveCall(c) == c.call = "active"
ActivationOnChange ==
    /\ pc = "new" => ~active
    /\ stats.act_true - stats.act_false \in {0, 1}
    /\ active <=> stats.act_true = stats.act_false + 1
    /\ (pc = "check" /\ frame > 0) =>
          /\ active = window.active
          /\ SelectSeq(calls, IsActiveCall) =
                IF window.active # pre.active
                THEN <<Call("active", [active |-> window.active])>>
                ELSE <<>>
ActivationWitness ==
    /\ pc = "check"
    /\ stats.act_true = 2
    /\ stats.act_false = 1
    /\ SelectSeq(calls, IsActiveCall) = <<Call("active", [active |-> TRUE])>>

\* C19: absence of platform data is no event this frame: with no mouse position
\* reported the drain emits no mouse-move callback and keeps the last-known
\* position; a scroll callback (dx, dy) is emitted if and only if a scroll delta
\* is reported; in both cases the rest of the drain proceeds normally.
IsScrollCall(c) == c.call = "scroll"
AbsenceIsNoEvent ==
    (pc = "check" /\ frame > 0) =>
        /\ window.mouse_pos = None =>
              /\ MouseCallsIn(calls) = <<>>
              /\ mouse_pos = pre.mouse_pos
        /\ SelectSeq(calls, IsScrollCall) =
              IF window.scroll = None THEN <<>>
              ELSE <<Call("scroll", [dx |-> window.scroll[1][1],
                                     dy |-> window.scroll[1][2]])>>
        /\ button_down = window.mouse_down
        /\ active = window.active
        /\ window_size = window.size
        /\ Len(MouseEventsOf(calls)) =
              Cardinality({i \in 1..3 : window.mouse_down[i] # pre.button_down[i]})
        /\ Len(SelectSeq(calls, IsActiveCall)) =
              IF window.active # pre.active THEN 1 ELSE 0
AbsenceWitness ==
    /\ pc = "check"
    /\ frame > 1
    /\ window.mouse_pos = None
    /\ window.scroll = None
    /\ mouse_pos = <<Scale, Scale>>
    /\ Len(MouseEventsOf(calls)) = 1

\* C20: every MouseEvent of a button transition carries the dispatcher's
\* last-known floored mouse position at the time of emission; a position change
\* and a button change seen in the same frame give the move callback first and
\* the button event at the new position.
ButtonEventsAtKnownPosition ==
    (pc = "check" /\ frame > 0) =>
        /\ \A i \in DOMAIN calls :
              calls[i].call = "mouse_event" =>
                  /\ <<calls[i].args.x, calls[i].args.y>> = mouse_pos
                  /\ mouse_pos = FloorPos(mouse_pos)
                  /\ \A j \in DOMAIN calls : calls[j].call = "mouse" => j < i
        /\ mouse_pos =
              IF IsSome(window.mouse_pos) THEN FloorPos(Unwrap(window.mouse_pos))
              ELSE pre.mouse_pos
ButtonEventsWitness ==
    /\ pc = "check"
    /\ pre.mouse_pos = <<0, 0>>
    /\ MouseCallsIn(calls) = <<Call("mouse", [x |-> 2 * Scale + 1, y |-> Scale])>>
    /\ \E i \in DOMAIN calls :
          calls[i] = Call("mouse_event", [x |-> 2 * Scale, y |-> Scale,
                                          button |-> "Left", state |-> "Down"])

\* C21: the pending-update flag is true on construction and, inside Shell::run,
\* false whenever a drain begins; so at the check of every iteration after the
\* first it is true if and only if at least one Update request was received
\* from the channel during the preceding drain, and an empty channel leaves it
\* false.
UpdateFlagFollowsRequests ==
    /\ update = TRUE
    /\ [](pc = "drain" => ~update)
    /\ []((pc = "check" /\ frame > 0) =>
              (update <=> \E i \in DOMAIN pre.requests :
                              pre.requests[i].req = "Update"))
    /\ [][DrainEvents => /\ update' <=> Len(requests') < Len(requests)
                         /\ requests = <<>> => ~update']_vars
UpdateFlagWitness ==
    /\ pc = "check"
    /\ frame > 1
    /\ update
    /\ Len(pre.requests) = 1
    /\ requests = <<>>

\* C22: the text events queued between two drains are delivered in the reverse
\* of the order in which the callback appended them, and all of them before any
\* tracked-key Down or Up event of the same frame.
IsTrackerCall(c) == c.call = "key_event" /\ c.args.text = <<>>
TextDeliveredLastFirst ==
    (pc = "check" /\ frame > 0) =>
        LET delivered == TextEventsIn(calls)
            n == Len(pre.key_events)
        IN  /\ Len(delivered) = n
            /\ \A i \in 1..n : delivered[i] = pre.key_events[n + 1 - i]
            /\ \A i, j \in DOMAIN calls :
                  (IsTrackerCall(calls[i]) /\ IsTextCall(calls[j])) => j < i
TextLastFirstWitness ==
    /\ pc = "check"
    /\ typed = <<65, 10>>
    /\ Len(TextEventsIn(calls)) = 2
    /\ TextEventsIn(calls)[1].key = "Enter"
    /\ \E i \in DOMAIN calls : IsTrackerCall(calls[i])

\* C23: after every drain the last-known state equals what the platform
\* reported in that drain: the three button levels, the focus flag, the window
\* size, and the floor of the mouse position whenever one was reported; so no
\* level change stays undetected beyond the frame that samples it.
LastKnownEqualsSampled ==
    (pc = "check" /\ frame > 0) =>
        /\ \A i \in 1..3 : button_down[i] = window.mouse_down[i]
        /\ active = window.active
        /\ window_size = window.size
        /\ IsSome(window.mouse_pos) =>
              /\ mouse_pos[1] = (window.mouse_pos[1][1] \div Scale) * Scale
              /\ mouse_pos[2] = (window.mouse_pos[1][2] \div Scale) * Scale
        /\ \A i \in 1..3 :
              window.mouse_down[i] # pre.button_down[i] =>
                  \E j \in DOMAIN calls :
                      /\ calls[j].call = "mouse_event"
                      /\ calls[j].args.button = Buttons[i]
                      /\ calls[j].args.state =
                            IF window.mouse_down[i] THEN "Down" ELSE "Up"
        /\ window.active # pre.active =>
              \E j \in DOMAIN calls :
                  calls[j] = Call("active", [active |-> window.active])
        /\ window.size # pre.window_size =>
              \E j \in DOMAIN calls :
                  calls[j] = Call("resize", [width |-> window.size[1],
                                             height |-> window.size[2]])
LastKnownWitness ==
    /\ pc = "check"
    /\ frame > 1
    /\ pre.button_down = <<TRUE, FALSE, FALSE>>
    /\ button_down = <<FALSE, TRUE, TRUE>>
    /\ pre.window_size # window_size
    /\ pre.active /\ ~active
    /\ mouse_pos = <<Scale, Scale>>

\* C24: a quiescent frame changes nothing: if the platform reports the same
\* floored mouse position, button levels, activation flag and window size as
\* last-known, no scroll delta, no pressed or released tracked key, and the
\* pending-text queue and the request channel are empty, the drain invokes no
\* adapter callback and no Canvas resize and leaves every field of the
\* dispatcher state unchanged.
QuiescentFrame ==
    /\ window.mouse_pos = None \/ FloorPos(window.mouse_pos[1]) = mouse_pos
    /\ window.mouse_down = button_down
    /\ window.active = active
    /\ window.size = window_size
    /\ window.scroll = None
    /\ \A b \in Bindings :
          /\ ~is_key_pressed(window, b.native, KeyRepeat(b.native))
          /\ ~is_key_released(window, b.native)
    /\ key_events = <<>>
    /\ requests = <<>>
QuiescentFrameChangesNothing ==
    [][(DrainEvents /\ QuiescentFrame) =>
          /\ calls' = calls
          /\ UNCHANGED <<mouse_pos, button_down, active, window_size, update,
                         key_events, requests, running>>]_vars
QuiescentWitness ==
    /\ pc = "check"
    /\ frame > 1
    /\ Len(calls) = 3
    /\ pre.mouse_pos = <<Scale, 0>> /\ window.mouse_pos = Some(<<Scale, 0>>)
    /\ pre.requests = <<>> /\ pre.key_events = <<>>
    /\ mouse_pos = pre.mouse_pos
====
